---- MODULE Spec2Model ----
(***************************************************************************)
(* A model of diet_app.py: the History and Foods worksheets of the remote  *)
(* workbook, the backend functions that read and write them, and the       *)
(* Streamlit script cycle of each browser session that calls them.         *)
(*                                                                         *)
(* Text cells that the code searches or parses (the date column) are       *)
(* sequences of tokens, so that `in`, `==` and pd.to_datetime differ the   *)
(* way they differ on strings.  Macro values are integers.                 *)
(***************************************************************************)
EXTENDS Integers, Sequences, FiniteSets, TLC

\* ---------------------------------------------------------------- bounds
MaxDay == 2         \* calendar days a session can select: 1..MaxDay
MaxRows == 2        \* cap on the data rows of the History table
MaxStatRows == 3    \* data rows of the tables weekly stats are computed on
MaxFoods == 3       \* rows of the remote Foods table
MaxNum == 2         \* largest numeric input of smart_carb_calc

VARIABLES
    table,          \* the History worksheet: table[1] is the header row
    pc,             \* per session: "start" | "ready" | "deleting"
    selected_date,  \* per session: the st.date_input value
    current_user,   \* per session: the sidebar selectbox value
    todays_meals,   \* per session: the list rendered in this script run
    all_values,     \* per session: the snapshot read by delete_meal_from_history
    item_to_delete, \* per session: the list item being deleted
    row_to_delete,  \* per session: the row index the scan computed
    notice,         \* per session: "none" | "success" | "warning" | "error"
    op,             \* per session: last backend write called ("none"|"log"|"delete")
    logged,         \* per session: the arguments of the last log_meal_to_history call
    removed,        \* per session: the rows the last delete_rows call removed
    othersDeleted,  \* per session: another session called delete_rows since my read
    othersAppended, \* per session: another session appended since my read
    foods,          \* the Foods worksheet's records
    foodsReadable,  \* whether the remote Foods read succeeds
    FOOD_DB,        \* result of load_food_db
    foodsLoaded,    \* whether load_food_db has returned
    statsUser,      \* the user get_weekly_stats was called for
    stats,          \* result of get_weekly_stats
    statsReadOk,    \* whether that call's remote read succeeded
    carbArgs,       \* arguments of smart_carb_calc
    carbResult      \* result of smart_carb_calc

storeVars == <<table, pc, selected_date, current_user, todays_meals, all_values,
               item_to_delete, row_to_delete, notice, op, logged, removed,
               othersDeleted, othersAppended>>
statVars == <<statsUser, stats, statsReadOk>>
foodVars == <<foods, foodsReadable, FOOD_DB, foodsLoaded>>
carbVars == <<carbArgs, carbResult>>
vars == <<storeVars, statVars, foodVars, carbVars>>

\* ------------------------------------------------------------ text cells
Days == 1..MaxDay

\* Tokens of a date cell's text.
Iso(d) == [k |-> "iso", d |-> d]       \* "YYYY-MM-DD" of day d
Us(d) == [k |-> "us", d |-> d]         \* "MM/DD/YYYY" of day d
Time == [k |-> "time", d |-> 0]        \* " 00:00:00"
Junk == [k |-> "junk", d |-> 0]        \* any other text

\* str(selected_date)
StrDate(d) == <<Iso(d)>>

\* Python's `sub in text` on strings
In(sub, text) ==
    \E i \in 0..(Len(text) - Len(sub)) : SubSeq(text, i + 1, i + Len(sub)) = sub

NoDate == 0
\* pd.to_datetime(text).date(); NoDate when parsing raises
ToDatetimeDate(text) ==
    IF Len(text) = 1 /\ text[1].k \in {"iso", "us"} THEN text[1].d
    ELSE IF Len(text) = 2 /\ text[1].k \in {"iso", "us"} /\ text[2] = Time THEN text[1].d
    ELSE NoDate

\* ------------------------------------------------------------- constants
USERS == <<"User 1", "User 2", "Guest">>
\* The sessions choose among the first two.
UserChoices == {USERS[1], USERS[2]}

StdHeader == <<"date", "user", "name", "cal", "p", "f", "c">>
CapHeader == <<"Date", "User", "name", "cal", "p", "f", "c">>


\* The built-in profiles of load_food_db, in tenths (cal, p, f, c).
BaseDb ==
    [n \in {"Shake A (Morning - Heavy)", "Shake B (Evening - Lite)",
            "Shake B (Maintenance - Banana Only)", "Eggs (5 Large + Butter)",
            "Lunch (6 Roti + Low Oil Sabzi)", "Chicken Breast (200g + Oil)",
            "Pasta (265g Cooked - Bulk)", "Pasta (150g Cooked - Normal)",
            "Apple (1 Medium)"} |->
       CASE n = "Shake A (Morning - Heavy)" -> [cal |-> 4570, p |-> 149, f |-> 126, c |-> 720]
         [] n = "Shake B (Evening - Lite)" -> [cal |-> 3970, p |-> 128, f |-> 74, c |-> 680]
         [] n = "Shake B (Maintenance - Banana Only)" -> [cal |-> 2820, p |-> 96, f |-> 56, c |-> 480]
         [] n = "Eggs (5 Large + Butter)" -> [cal |-> 4060, p |-> 310, f |-> 290, c |-> 20]
         [] n = "Lunch (6 Roti + Low Oil Sabzi)" -> [cal |-> 6200, p |-> 180, f |-> 170, c |-> 950]
         [] n = "Chicken Breast (200g + Oil)" -> [cal |-> 3650, p |-> 600, f |-> 110, c |-> 0]
         [] n = "Pasta (265g Cooked - Bulk)" -> [cal |-> 4160, p |-> 140, f |-> 15, c |-> 850]
         [] n = "Pasta (150g Cooked - Normal)" -> [cal |-> 2350, p |-> 80, f |-> 10, c |-> 480]
         [] OTHER -> [cal |-> 950, p |-> 5, f |-> 0, c |-> 250]]

\* ------------------------------------------------------- History: reads
\* One dict of worksheet.get_all_records(): the data row keyed by the header row.
Record(header, row) ==
    [key \in {header[i] : i \in 1..Len(header)} |->
        row[CHOOSE i \in 1..Len(header) : header[i] = key]]

\* worksheet.get_all_records(): the rows after the header, in sheet order.
GetAllRecords(tbl) == [i \in 1..(Len(tbl) - 1) |-> Record(tbl[1], tbl[i + 1])]

\* dict.get(key, default)
Get(rec, key, default) == IF key \in DOMAIN rec THEN rec[key] ELSE default

\* Mutation: the fallback branch forgets the user test.
FilterStepAnyUser(filtered, row, target_str, user) ==
    LET row_date == Get(row, "date", Get(row, "Date", <<>>))
        row_user == Get(row, "user", Get(row, "User", ""))
    IN  IF In(target_str, row_date) /\ row_user = user
        THEN Append(filtered, row)
        ELSE IF ToDatetimeDate(row_date) # NoDate
                /\ StrDate(ToDatetimeDate(row_date)) = target_str
        THEN Append(filtered, row)
        ELSE filtered

\* Mutation: matching rows are put in front of the list.
FilterStepPrepend(filtered, row, target_str, user) ==
    LET row_date == Get(row, "date", Get(row, "Date", <<>>))
        row_user == Get(row, "user", Get(row, "User", ""))
    IN  IF row_user = user
           /\ \/ In(target_str, row_date)
              \/ ToDatetimeDate(row_date) # NoDate
                 /\ StrDate(ToDatetimeDate(row_date)) = target_str
        THEN <<row>> \o filtered
        ELSE filtered

\* The body of the for loop of get_log_for_date for one row.
FilterStep(filtered, row, target_str, user) ==
    LET row_date == Get(row, "date", Get(row, "Date", <<>>))
        row_user == Get(row, "user", Get(row, "User", ""))
    IN  IF In(target_str, row_date) /\ row_user = user
        THEN Append(filtered, row)
        ELSE IF row_user = user /\ ToDatetimeDate(row_date) # NoDate
                /\ StrDate(ToDatetimeDate(row_date)) = target_str
        THEN Append(filtered, row)
        ELSE filtered

RECURSIVE FilterLoop(_, _, _, _, _)
FilterLoop(data, k, filtered, target_str, user) ==
    IF k > Len(data) THEN filtered
    ELSE FilterLoop(data, k + 1, FilterStep(filtered, data[k], target_str, user),
                    target_str, user)

\* get_log_for_date when the remote read succeeds.
GetLogForDate(tbl, date, user) ==
    FilterLoop(GetAllRecords(tbl), 1, <<>>, StrDate(date), user)

\* ------------------------------------------------------ History: writes
\* Mutation: the row is inserted right below the header.
AppendRowAtTop(tbl, row) == <<tbl[1], row>> \o SubSeq(tbl, 2, Len(tbl))

\* worksheet.append_row(row): the row goes after the last row.
AppendRow(tbl, row) == Append(tbl, row)

\* Mutation: the user and name cells change places.
LogRowSwapped(a) == <<StrDate(a.selected_date), a.name, a.user, a.cal, a.p, a.f, a.c>>

\* The row log_meal_to_history hands to append_row for its arguments a.
LogRow(a) == <<StrDate(a.selected_date), a.user, a.name, a.cal, a.p, a.f, a.c>>

\* Mutation: the loop has no break, so the last matching row wins.
ScanNoBreak(values, i, date_str, user, name) ==
    LET hits == {k \in 2..Len(values) :
                    values[k][1] = date_str /\ values[k][2] = user /\ values[k][3] = name}
    IN  IF hits = {} THEN -1 ELSE CHOOSE k \in hits : \A j \in hits : j <= k

\* Mutation: the name is not compared.
ScanAnyName(values, i, date_str, user, name) ==
    LET hits == {k \in 2..Len(values) : values[k][1] = date_str /\ values[k][2] = user}
    IN  IF hits = {} THEN -1 ELSE CHOOSE k \in hits : \A j \in hits : k <= j

\* The scan of delete_meal_from_history from Python index i on; all_values[i]
\* of the code is values[i + 1] here.  Returns row_to_delete.
RECURSIVE Scan(_, _, _, _, _)
Scan(values, i, date_str, user, name) ==
    IF i >= Len(values) THEN -1
    ELSE IF i = 0 THEN Scan(values, i + 1, date_str, user, name)
    ELSE LET row == values[i + 1]
         IN  IF row[1] = date_str /\ row[2] = user /\ row[3] = name
             THEN i + 1
             ELSE Scan(values, i + 1, date_str, user, name)

\* worksheet.delete_rows(k): sheet row k goes, the rows below move up; a row
\* below the data is an empty grid row and its removal changes no data.
DeleteRows(tbl, k) ==
    IF k <= Len(tbl) THEN SubSeq(tbl, 1, k - 1) \o SubSeq(tbl, k + 1, Len(tbl))
    ELSE tbl

\* The rows a delete_rows(k) call removes from the data.
RowsAt(tbl, k) == IF k <= Len(tbl) THEN <<tbl[k]>> ELSE <<>>

\* f"{f_choice} ({qty}x)"
MealName(f_choice, qty) == <<f_choice, qty>>

\* ------------------------------------------------------------- sessions
\* Inputs of the "Add Food" menu form.
MenuChoices == {"Apple (1 Medium)"}
QtyChoices == {1, 2}

\* Rows the sheet may hold that were typed into it by hand: dates in other
\* serializations, free text in the date column, rows with no user value,
\* macro values of the user's own.
ForeignDates ==
    {<<Iso(1)>>, <<Iso(1), Time>>, <<Us(1)>>, <<Junk>>, <<Iso(1), Junk, Iso(MaxDay)>>}
ForeignRows ==
    {<<dt, u, MealName("Apple (1 Medium)", 1), 900, 0, 0, 200>> :
        dt \in ForeignDates, u \in {USERS[1], ""}}

Headers == {StdHeader, CapHeader}

NoLocals(S) ==
    /\ all_values = [s \in S |-> <<>>]
    /\ item_to_delete = [s \in S |-> <<>>]
    /\ row_to_delete = [s \in S |-> -1]
    /\ notice = [s \in S |-> "none"]
    /\ op = [s \in S |-> "none"]
    /\ logged = [s \in S |-> <<>>]
    /\ removed = [s \in S |-> <<>>]
    /\ othersDeleted = [s \in S |-> FALSE]
    /\ othersAppended = [s \in S |-> FALSE]

IdleStats == statsUser = "" /\ stats = [some |-> FALSE, df |-> <<>>] /\ statsReadOk = TRUE
IdleFoods == foods = <<>> /\ foodsReadable = TRUE /\ FOOD_DB = BaseDb /\ foodsLoaded = TRUE
IdleCarb == carbArgs = <<0, 0, 0, 0>> /\ carbResult = [n |-> 0, d |-> 0]

\* The sessions S open the app on a History sheet that has its header row.
InitStore(S, tables) ==
    /\ table \in tables
    /\ pc = [s \in S |-> "start"]
    /\ selected_date \in [S -> {1}]
    /\ current_user \in [S -> {USERS[1]}]
    /\ todays_meals = [s \in S |-> <<>>]
    /\ NoLocals(S)
    /\ IdleStats /\ IdleFoods /\ IdleCarb

Sessions == DOMAIN pc

unchangedPure == UNCHANGED <<statVars, foodVars, carbVars>>

\* One script run up to the rendered page: todays_meals = get_log_for_date(...).
Render(s) ==
    /\ pc[s] = "start"
    /\ todays_meals' = [todays_meals EXCEPT ![s] =
            GetLogForDate(table, selected_date[s], current_user[s])]
    /\ pc' = [pc EXCEPT ![s] = "ready"]
    /\ all_values' = [all_values EXCEPT ![s] = <<>>]
    /\ item_to_delete' = [item_to_delete EXCEPT ![s] = <<>>]
    /\ row_to_delete' = [row_to_delete EXCEPT ![s] = -1]
    /\ notice' = [notice EXCEPT ![s] = "none"]
    /\ op' = [op EXCEPT ![s] = "none"]
    /\ logged' = [logged EXCEPT ![s] = <<>>]
    /\ removed' = [removed EXCEPT ![s] = <<>>]
    /\ othersDeleted' = [othersDeleted EXCEPT ![s] = FALSE]
    /\ othersAppended' = [othersAppended EXCEPT ![s] = FALSE]
    /\ UNCHANGED <<table, selected_date, current_user>>
    /\ unchangedPure

\* The same run when the remote read raises: get_log_for_date returns [].
RenderReadFails(s) ==
    /\ pc[s] = "start"
    /\ todays_meals' = [todays_meals EXCEPT ![s] = <<>>]
    /\ pc' = [pc EXCEPT ![s] = "ready"]
    /\ all_values' = [all_values EXCEPT ![s] = <<>>]
    /\ item_to_delete' = [item_to_delete EXCEPT ![s] = <<>>]
    /\ row_to_delete' = [row_to_delete EXCEPT ![s] = -1]
    /\ notice' = [notice EXCEPT ![s] = "none"]
    /\ op' = [op EXCEPT ![s] = "none"]
    /\ logged' = [logged EXCEPT ![s] = <<>>]
    /\ removed' = [removed EXCEPT ![s] = <<>>]
    /\ othersDeleted' = [othersDeleted EXCEPT ![s] = FALSE]
    /\ othersAppended' = [othersAppended EXCEPT ![s] = FALSE]
    /\ UNCHANGED <<table, selected_date, current_user>>
    /\ unchangedPure

\* The user changes the date or the user widget: the script reruns.
SelectInput(s, d, u) ==
    /\ pc[s] = "ready"
    /\ <<d, u>> # <<selected_date[s], current_user[s]>>
    /\ selected_date' = [selected_date EXCEPT ![s] = d]
    /\ current_user' = [current_user EXCEPT ![s] = u]
    /\ pc' = [pc EXCEPT ![s] = "start"]
    /\ UNCHANGED <<table, todays_meals, all_values, item_to_delete, row_to_delete,
                   notice, op, logged, removed, othersDeleted, othersAppended>>
    /\ unchangedPure

\* The arguments the "Add" button passes to log_meal_to_history (line 218).
AddArgs(s, f_choice, qty) ==
    LET item == FOOD_DB[f_choice]
    IN  [selected_date |-> selected_date[s], user |-> current_user[s],
         name |-> MealName(f_choice, qty), cal |-> item.cal * qty,
         p |-> item.p * qty, f |-> item.f * qty, c |-> item.c * qty]

\* "Add": log_meal_to_history whose append_row succeeds, then st.rerun().
LogMeal(s, f_choice, qty) ==
    /\ pc[s] = "ready"
    /\ Len(table) - 1 < MaxRows
    /\ table' = AppendRow(table, LogRow(AddArgs(s, f_choice, qty)))
    /\ logged' = [logged EXCEPT ![s] = AddArgs(s, f_choice, qty)]
    /\ op' = [op EXCEPT ![s] = "log"]
    /\ notice' = [notice EXCEPT ![s] = "none"]
    /\ pc' = [pc EXCEPT ![s] = "start"]
    /\ othersAppended' = [t \in Sessions |->
            IF t # s /\ pc[t] = "deleting" THEN TRUE ELSE othersAppended[t]]
    /\ UNCHANGED <<selected_date, current_user, todays_meals, all_values,
                   item_to_delete, row_to_delete, removed, othersDeleted>>
    /\ unchangedPure

\* "Add" when the connection or append_row raises: st.error, then st.rerun().
LogMealFails(s, f_choice, qty) ==
    /\ pc[s] = "ready"
    /\ logged' = [logged EXCEPT ![s] = AddArgs(s, f_choice, qty)]
    /\ op' = [op EXCEPT ![s] = "log"]
    /\ notice' = [notice EXCEPT ![s] = "error"]
    /\ pc' = [pc EXCEPT ![s] = "start"]
    /\ UNCHANGED <<table, selected_date, current_user, todays_meals, all_values,
                   item_to_delete, row_to_delete, removed, othersDeleted, othersAppended>>
    /\ unchangedPure

\* The delete button of list item index_in_list: delete_meal_from_history up to
\* the end of its scan (lines 83-97).
DeleteScan(s, index_in_list) ==
    /\ pc[s] = "ready"
    /\ index_in_list \in 0..(Len(todays_meals[s]) - 1)
    /\ LET item == todays_meals[s][index_in_list + 1]
           target_name == item["name"]
       IN  /\ item_to_delete' = [item_to_delete EXCEPT ![s] = item]
           /\ row_to_delete' = [row_to_delete EXCEPT ![s] =
                  Scan(table, 0, StrDate(selected_date[s]), current_user[s], target_name)]
    /\ all_values' = [all_values EXCEPT ![s] = table]
    /\ pc' = [pc EXCEPT ![s] = "deleting"]
    /\ op' = [op EXCEPT ![s] = "delete"]
    /\ othersDeleted' = [othersDeleted EXCEPT ![s] = FALSE]
    /\ othersAppended' = [othersAppended EXCEPT ![s] = FALSE]
    /\ UNCHANGED <<table, selected_date, current_user, todays_meals, notice,
                   logged, removed>>
    /\ unchangedPure

\* The delete button when the connection or get_all_values raises.
DeleteReadFails(s, index_in_list) ==
    /\ pc[s] = "ready"
    /\ index_in_list \in 0..(Len(todays_meals[s]) - 1)
    /\ op' = [op EXCEPT ![s] = "delete"]
    /\ notice' = [notice EXCEPT ![s] = "error"]
    /\ pc' = [pc EXCEPT ![s] = "start"]
    /\ UNCHANGED <<table, selected_date, current_user, todays_meals, all_values,
                   item_to_delete, row_to_delete, logged, removed, othersDeleted,
                   othersAppended>>
    /\ unchangedPure

\* Lines 99-101: the scan found a row and delete_rows succeeds.
DeleteFound(s) ==
    /\ pc[s] = "deleting"
    /\ row_to_delete[s] > 0
    /\ table' = DeleteRows(table, row_to_delete[s])
    /\ removed' = [removed EXCEPT ![s] = RowsAt(table, row_to_delete[s])]
    /\ notice' = [notice EXCEPT ![s] = "success"]
    /\ pc' = [pc EXCEPT ![s] = "start"]
    /\ othersDeleted' = [t \in Sessions |->
            IF t # s /\ pc[t] = "deleting" THEN TRUE ELSE othersDeleted[t]]
    /\ UNCHANGED <<selected_date, current_user, todays_meals, all_values,
                   item_to_delete, row_to_delete, op, logged, othersAppended>>
    /\ unchangedPure

\* Lines 99-100, 104-105: delete_rows raises.
DeleteRowsFails(s) ==
    /\ pc[s] = "deleting"
    /\ row_to_delete[s] > 0
    /\ notice' = [notice EXCEPT ![s] = "error"]
    /\ pc' = [pc EXCEPT ![s] = "start"]
    /\ UNCHANGED <<table, selected_date, current_user, todays_meals, all_values,
                   item_to_delete, row_to_delete, op, logged, removed, othersDeleted,
                   othersAppended>>
    /\ unchangedPure

\* Lines 102-103: the scan found nothing.
DeleteNotFound(s) ==
    /\ pc[s] = "deleting"
    /\ row_to_delete[s] <= 0
    /\ notice' = [notice EXCEPT ![s] = "warning"]
    /\ pc' = [pc EXCEPT ![s] = "start"]
    /\ UNCHANGED <<table, selected_date, current_user, todays_meals, all_values,
                   item_to_delete, row_to_delete, op, logged, removed, othersDeleted,
                   othersAppended>>
    /\ unchangedPure

DoRender == \E s \in Sessions : Render(s)
DoRenderReadFails == \E s \in Sessions : RenderReadFails(s)
DoSelectInput == \E s \in Sessions, d \in Days, u \in UserChoices : SelectInput(s, d, u)
DoLogMeal ==
    \E s \in Sessions, f_choice \in MenuChoices, qty \in QtyChoices : LogMeal(s, f_choice, qty)
DoLogMealFails ==
    \E s \in Sessions, f_choice \in MenuChoices, qty \in QtyChoices :
        LogMealFails(s, f_choice, qty)
DoDeleteScan == \E s \in Sessions, i \in 0..MaxRows : DeleteScan(s, i)
DoDeleteReadFails == \E s \in Sessions, i \in 0..MaxRows : DeleteReadFails(s, i)
DoDeleteFound == \E s \in Sessions : DeleteFound(s)
DoDeleteRowsFails == \E s \in Sessions : DeleteRowsFails(s)
DoDeleteNotFound == \E s \in Sessions : DeleteNotFound(s)

\* One browser session on a sheet that may hold one foreign row.
SoloTables == {<<h>> : h \in Headers} \cup {<<h, r>> : h \in Headers, r \in ForeignRows}
InitSolo == InitStore({1}, SoloTables)
NextSolo ==
    \/ DoRender
    \/ DoRenderReadFails
    \/ DoSelectInput
    \/ DoLogMeal
    \/ DoLogMealFails
    \/ DoDeleteScan
    \/ DoDeleteReadFails
    \/ DoDeleteFound
    \/ DoDeleteRowsFails
    \/ DoDeleteNotFound
SpecSolo == InitSolo /\ [][NextSolo]_vars

\* Two browser sessions of the same user and date sharing the sheet.
InitShared == InitStore({1, 2}, {<<StdHeader>>})
NextShared ==
    \/ DoRender
    \/ DoLogMeal
    \/ DoDeleteScan
    \/ DoDeleteFound
    \/ DoDeleteNotFound
Spec == InitShared /\ [][NextShared]_vars

\* --------------------------------------------------------- weekly stats
\* Mutation: the rows are not filtered by user.
UserRowsUnfiltered(data, user) == data

\* df[df['user'] == user]
UserRows(data, user) ==
    LET Mine(rec) == rec["user"] = user IN SelectSeq(data, Mine)

\* df.groupby('date')[['cal', 'p', 'f', 'c']].sum(), one row after the other.
RECURSIVE GroupSum(_, _, _)
GroupSum(rows, k, acc) ==
    IF k > Len(rows) THEN acc
    ELSE LET r == rows[k]
             key == r["date"]
             cur == IF key \in DOMAIN acc THEN acc[key]
                    ELSE [cal |-> 0, p |-> 0, f |-> 0, c |-> 0]
             new == [cal |-> cur.cal + r["cal"], p |-> cur.p + r["p"],
                     f |-> cur.f + r["f"], c |-> cur.c + r["c"]]
         IN  GroupSum(rows, k + 1,
                      [x \in DOMAIN acc \cup {key} |-> IF x = key THEN new ELSE acc[x]])

None == [some |-> FALSE, df |-> <<>>]

\* get_weekly_stats when the remote read succeeds; None also when groupby
\* raises for a missing column.
GetWeeklyStats(tbl, user) ==
    LET data == GetAllRecords(tbl)
        columns == {tbl[1][i] : i \in 1..Len(tbl[1])}
    IN  IF Len(data) # 0 /\ "user" \in columns
        THEN IF {"date", "cal", "p", "f", "c"} \subseteq columns
             THEN [some |-> TRUE, df |-> GroupSum(UserRows(data, user), 1, <<>>)]
             ELSE None
        ELSE None

\* History tables the statistics are computed on.
StatDates == {StrDate(1), <<Iso(1), Time>>}
StatRows ==
    {<<dt, u, MealName("Apple (1 Medium)", 1), m[1], m[2], m[3], m[4]>> :
        dt \in StatDates, u \in {USERS[1], USERS[2], ""},
        m \in {<<400, 10, 2, 50>>, <<300, 5, 1, 30>>}}

RECURSIVE TablesOf(_, _, _)
\* The tables with header h and at most n data rows from rows.
TablesOf(h, rows, n) ==
    IF n = 0 THEN {<<h>>}
    ELSE LET shorter == TablesOf(h, rows, n - 1)
         IN  shorter \cup {Append(t, r) : t \in {x \in shorter : Len(x) = n}, r \in rows}

IdleStore ==
    /\ pc = <<>> /\ selected_date = <<>> /\ current_user = <<>> /\ todays_meals = <<>>
    /\ item_to_delete = <<>> /\ NoLocals({})

InitStats ==
    /\ table \in TablesOf(StdHeader, StatRows, MaxStatRows)
                    \cup TablesOf(CapHeader, StatRows, MaxStatRows)
    /\ IdleStore
    /\ IdleStats /\ IdleFoods /\ IdleCarb

\* The History tab: stats = get_weekly_stats(current_user).
WeeklyStats(u) ==
    /\ statsUser' = u
    /\ stats' = GetWeeklyStats(table, u)
    /\ statsReadOk' = TRUE
    /\ UNCHANGED <<storeVars, foodVars, carbVars>>

\* The same when the remote read raises.
WeeklyStatsReadFails(u) ==
    /\ statsUser' = u
    /\ stats' = None
    /\ statsReadOk' = FALSE
    /\ UNCHANGED <<storeVars, foodVars, carbVars>>

DoWeeklyStats == \E u \in UserChoices : WeeklyStats(u)
DoWeeklyStatsReadFails == \E u \in UserChoices : WeeklyStatsReadFails(u)
NextStats == DoWeeklyStats \/ DoWeeklyStatsReadFails
SpecStats == InitStats /\ [][NextStats]_vars

\* -------------------------------------------------------------- catalog
\* A numeric cell of the Foods sheet, and a cell float() cannot parse.
Num(v) == [num |-> TRUE, v |-> v]
Blank == [num |-> FALSE, v |-> 0]

\* float(cell), in tenths.
Float(cell) == cell.v * 10

\* The for loop of load_food_db from row k on; a float() that raises ends
\* the loop through `except: pass` with base_db as it is by then.
RECURSIVE LoadLoop(_, _, _)
LoadLoop(data, k, base_db) ==
    IF k > Len(data) THEN base_db
    ELSE LET row == data[k]
         IN  IF row.name = "" THEN LoadLoop(data, k + 1, base_db)
             ELSE IF ~(row.cal.num /\ row.p.num /\ row.f.num /\ row.c.num) THEN base_db
             ELSE LoadLoop(data, k + 1,
                      [n \in DOMAIN base_db \cup {row.name} |->
                          IF n = row.name
                          THEN [cal |-> Float(row.cal), p |-> Float(row.p),
                                f |-> Float(row.f), c |-> Float(row.c)]
                          ELSE base_db[n]])

LoadFoodDb(data, readable) == IF readable THEN LoadLoop(data, 1, BaseDb) ELSE BaseDb

FoodRows ==
    {[name |-> n, cal |-> cal, p |-> Num(1), f |-> Num(0), c |-> Num(2)] :
        n \in {"", "Apple (1 Medium)", "Oats"}, cal \in {Num(100), Num(200), Blank}}

RECURSIVE SeqsOf(_, _)
\* The sequences of at most n elements of S.
SeqsOf(S, n) ==
    IF n = 0 THEN {<<>>}
    ELSE LET shorter == SeqsOf(S, n - 1)
         IN  shorter \cup {Append(t, r) : t \in {x \in shorter : Len(x) = n - 1}, r \in S}

InitFoods ==
    /\ foods \in SeqsOf(FoodRows, MaxFoods)
    /\ foodsReadable \in BOOLEAN
    /\ FOOD_DB = <<>>
    /\ foodsLoaded = FALSE
    /\ table = <<StdHeader>>
    /\ IdleStore /\ IdleStats /\ IdleCarb

\* FOOD_DB = load_food_db() with the Foods sheet readable.
LoadFoods ==
    /\ ~foodsLoaded /\ foodsReadable
    /\ FOOD_DB' = LoadFoodDb(foods, TRUE)
    /\ foodsLoaded' = TRUE
    /\ UNCHANGED <<foods, foodsReadable, storeVars, statVars, carbVars>>

\* FOOD_DB = load_food_db() when the connection or the read raises.
LoadFoodsReadFails ==
    /\ ~foodsLoaded /\ ~foodsReadable
    /\ FOOD_DB' = LoadFoodDb(foods, FALSE)
    /\ foodsLoaded' = TRUE
    /\ UNCHANGED <<foods, foodsReadable, storeVars, statVars, carbVars>>

NextFoods == LoadFoods \/ LoadFoodsReadFails
SpecFoods == InitFoods /\ [][NextFoods]_vars

\* ------------------------------------------------------ macro estimator
\* Mutation: the result is not clamped at zero.
SmartCarbCalcUnclamped(cal, p, f, c_input) ==
    IF c_input > 0 THEN [n |-> c_input, d |-> 1]
    ELSE [n |-> cal - (p * 4) - (f * 9), d |-> 4]

\* smart_carb_calc; the result is the fraction n / d, so that the division
\* by 4 loses nothing.
SmartCarbCalc(cal, p, f, c_input) ==
    IF c_input > 0 THEN [n |-> c_input, d |-> 1]
    ELSE IF cal - (p * 4) - (f * 9) > 0
         THEN [n |-> cal - (p * 4) - (f * 9), d |-> 4]
         ELSE [n |-> 0, d |-> 1]

InitCarb ==
    /\ carbArgs \in (-1..(10 * MaxNum)) \X (-1..MaxNum) \X (-1..MaxNum) \X (-1..MaxNum)
    /\ carbResult = [n |-> 0, d |-> 0]
    /\ table = <<StdHeader>>
    /\ IdleStore /\ IdleStats /\ IdleFoods

CarbCalc ==
    /\ carbResult.d = 0
    /\ carbResult' = SmartCarbCalc(carbArgs[1], carbArgs[2], carbArgs[3], carbArgs[4])
    /\ UNCHANGED <<carbArgs, storeVars, statVars, foodVars>>

NextCarb == CarbCalc
SpecCarb == InitCarb /\ [][NextCarb]_vars

\* ------------------------------------------------ properties: the store
\* A raw sheet row whose stored date, user and name equal the target's.
Matches(row, d, u, n) == row[1] = StrDate(d) /\ row[2] = u /\ row[3] = n

\* The rows of tbl below the header that match session s's delete target.
MatchingRows(tbl, s) ==
    {k \in 2..Len(tbl) :
        Matches(tbl[k], selected_date[s], current_user[s], item_to_delete[s]["name"])}

Least(S) == CHOOSE k \in S : \A j \in S : k <= j

\* tbl with exactly row k taken out and every other row in place.
Without(tbl, k) ==
    [j \in 1..(Len(tbl) - 1) |-> IF j < k THEN tbl[j] ELSE tbl[j + 1]]

\* Session s has returned from delete_meal_from_history without an exception.
Deleted(s) == pc[s] = "start" /\ op[s] = "delete" /\ notice[s] # "error"

\* C1: one delete_meal_from_history call by the only session removes exactly
\* the first data row whose date, user and name equal the target and no
\* other row (also when several rows match); when no row matches it warns
\* "not found" and leaves the table as it was.
C1_DeleteRemovesFirstMatch ==
    \A s \in Sessions :
        Deleted(s) =>
            IF MatchingRows(all_values[s], s) = {}
            THEN notice[s] = "warning" /\ table = all_values[s]
            ELSE /\ notice[s] = "success"
                 /\ table = Without(all_values[s], Least(MatchingRows(all_values[s], s)))

\* A delete that succeeded on a table with several, different rows matching
\* the target.
C1_Witness ==
    \E s \in Sessions :
        /\ Deleted(s) /\ notice[s] = "success"
        /\ \E j, k \in MatchingRows(all_values[s], s) : all_values[s][j] # all_values[s][k]
        /\ Len(table) = Len(all_values[s]) - 1

\* dict access of a listed row under either spelling of the column.
DateCell(rec) == Get(rec, "date", Get(rec, "Date", <<>>))
UserCell(rec) == Get(rec, "user", Get(rec, "User", ""))

\* C2 as stated: every row get_log_for_date returned has the requested user
\* and a stored date equal to the requested date (as text, or as the date
\* the text parses to).
C2_ListedRowsHaveEqualDate ==
    \A s \in Sessions :
        pc[s] = "ready" =>
            \A i \in 1..Len(todays_meals[s]) :
                /\ UserCell(todays_meals[s][i]) = current_user[s]
                /\ \/ DateCell(todays_meals[s][i]) = StrDate(selected_date[s])
                   \/ ToDatetimeDate(DateCell(todays_meals[s][i])) = selected_date[s]

\* C2 amended: every row get_log_for_date returned has the requested user
\* (so a row with no user value is never returned for a named user) and a
\* stored date text that contains the requested date's text or parses to
\* the requested date.
C2_ListedRowsContainDate ==
    \A s \in Sessions :
        pc[s] = "ready" =>
            \A i \in 1..Len(todays_meals[s]) :
                /\ UserCell(todays_meals[s][i]) = current_user[s]
                /\ UserCell(todays_meals[s][i]) # ""
                /\ \/ In(StrDate(selected_date[s]), DateCell(todays_meals[s][i]))
                   \/ ToDatetimeDate(DateCell(todays_meals[s][i])) = selected_date[s]

\* A rendered list holding a row whose stored date is not the ISO text.
C2_Witness ==
    \E s \in Sessions :
        /\ pc[s] = "ready"
        /\ \E i \in 1..Len(todays_meals[s]) :
               DateCell(todays_meals[s][i]) # StrDate(selected_date[s])

\* C3: log_meal_to_history on success adds exactly the row (date, user, name,
\* cal, p, f, c) after the last row and leaves every other row where it was;
\* on a remote failure the table is unchanged, the error is reported and the
\* call returns (the script reruns, nothing is retried).
C3_AppendAddsOneRowAtEnd ==
    [][\A s \in Sessions :
          (pc[s] = "ready" /\ op'[s] = "log" /\ pc'[s] = "start") =>
              IF notice'[s] = "error"
              THEN table' = table
              ELSE /\ notice'[s] = "none"
                   /\ Len(table') = Len(table) + 1
                   /\ SubSeq(table', 1, Len(table)) = table
                   /\ table'[Len(table')] =
                          <<StrDate(selected_date[s]), current_user[s], logged'[s].name,
                            logged'[s].cal, logged'[s].p, logged'[s].f, logged'[s].c>>]_vars

\* A successful log onto a table that already had data rows.
C3_Witness ==
    \E s \in Sessions :
        /\ pc[s] = "start" /\ op[s] = "log" /\ notice[s] = "none"
        /\ Len(table) >= 3
        /\ table[Len(table)][3] = logged[s].name

\* The filter of get_log_for_date on one record.
Passes(rec, d, u) ==
    /\ UserCell(rec) = u
    /\ In(StrDate(d), DateCell(rec)) \/ ToDatetimeDate(DateCell(rec)) = d

Filtered(tbl, d, u) ==
    LET Test(rec) == Passes(rec, d, u) IN SelectSeq(GetAllRecords(tbl), Test)

\* C9: get_log_for_date returns the data rows that pass its filter in sheet
\* order, so right after a successful log for (d, u), whose row is the last
\* of the sheet, the list for (d, u) is the list of the sheet before it
\* with the new entry as its last element.
C9_ListFollowsSheetOrder ==
    /\ \A d \in Days, u \in UserChoices : GetLogForDate(table, d, u) = Filtered(table, d, u)
    /\ \A s \in Sessions :
           (pc[s] = "start" /\ op[s] = "log" /\ notice[s] = "none") =>
               GetLogForDate(table, selected_date[s], current_user[s]) =
                   Append(GetLogForDate(SubSeq(table, 1, Len(table) - 1),
                                        selected_date[s], current_user[s]),
                          Record(table[1], LogRow(logged[s])))

\* After a successful log the list has an older entry and then the new one.
C9_Witness ==
    \E s \in Sessions :
        /\ pc[s] = "start" /\ op[s] = "log" /\ notice[s] = "none"
        /\ LET l == GetLogForDate(table, selected_date[s], current_user[s])
           IN  /\ Len(l) >= 2
               /\ l[Len(l)] = Record(table[1], LogRow(logged[s]))
               /\ l[1] # l[Len(l)]

\* C10 as stated: in a single session without failures, deleting a listed
\* entry removes exactly one row, the removed row has the entry's date, user
\* and name, and "not found" is never reported.
C10_ListedEntryCanBeDeleted ==
    \A s \in Sessions :
        Deleted(s) =>
            /\ notice[s] = "success"
            /\ Len(removed[s]) = 1
            /\ Len(table) = Len(all_values[s]) - 1
            /\ removed[s][1][1] = DateCell(item_to_delete[s])
            /\ removed[s][1][2] = UserCell(item_to_delete[s])
            /\ removed[s][1][3] = item_to_delete[s]["name"]

\* ------------------------------------------- properties: shared sessions
\* The row the last delete_rows call of s removed is not a row of its target.
Misdeleted(s) ==
    \/ removed[s] = <<>>
    \/ ~Matches(removed[s][1], selected_date[s], current_user[s], item_to_delete[s]["name"])

\* C4: a delete that reports success while removing a row that does not
\* match its target, or no row at all, happens, and only in this way: the
\* index was right for the table the session read, and another session's
\* delete_rows ran between that read and the session's own delete_rows.
C4_StaleIndexAfterConcurrentDelete ==
    \A s \in Sessions :
        (Deleted(s) /\ notice[s] = "success" /\ Misdeleted(s)) =>
            /\ othersDeleted[s]
            /\ row_to_delete[s] \in MatchingRows(all_values[s], s)

\* A session was told "Deleted" after removing a row of another name.
C4_Witness ==
    \E s \in Sessions :
        /\ Deleted(s) /\ notice[s] = "success"
        /\ removed[s] # <<>>
        /\ removed[s][1][3] # item_to_delete[s]["name"]

\* C5: when the other sessions only appended between a session's read and
\* its delete_rows, the row it removes is the row its scan matched, a row
\* whose date, user and name equal its target.
C5_AppendsKeepIndexValid ==
    \A s \in Sessions :
        (Deleted(s) /\ notice[s] = "success" /\ ~othersDeleted[s]) =>
            /\ removed[s] = <<all_values[s][row_to_delete[s]]>>
            /\ ~Misdeleted(s)

\* A delete that succeeded although another session appended after its read.
C5_Witness ==
    \E s \in Sessions :
        /\ Deleted(s) /\ notice[s] = "success"
        /\ othersAppended[s] /\ ~othersDeleted[s]
        /\ Len(removed[s]) = 1

\* ------------------------------------------------ properties: pure parts
RECURSIVE SumRows(_, _, _)
\* The sum of column col over the rows S of tbl.
SumRows(tbl, S, col) ==
    IF S = {} THEN 0
    ELSE LET k == CHOOSE k \in S : TRUE
         IN  tbl[k][col] + SumRows(tbl, S \ {k}, col)

\* The data rows of the table with user u, and those of them dated dt.
RowsOfUser(u) == {k \in 2..Len(table) : table[k][2] = u}
RowsOfUserOn(u, dt) == {k \in RowsOfUser(u) : table[k][1] = dt}

\* C6: on a non-empty table with a user column, get_weekly_stats(u) maps
\* each stored date that has a row of u to the sums of cal, p, f and c over
\* exactly the rows of u with that date; rows of other users and rows with
\* no user value add to no sum.
C6_StatsSumPerDateAndUser ==
    (statsUser # "" /\ statsReadOk /\ Len(table) > 1 /\ table[1] = StdHeader) =>
        /\ stats.some
        /\ DOMAIN stats.df = {table[k][1] : k \in RowsOfUser(statsUser)}
        /\ \A dt \in DOMAIN stats.df :
               /\ stats.df[dt].cal = SumRows(table, RowsOfUserOn(statsUser, dt), 4)
               /\ stats.df[dt].p = SumRows(table, RowsOfUserOn(statsUser, dt), 5)
               /\ stats.df[dt].f = SumRows(table, RowsOfUserOn(statsUser, dt), 6)
               /\ stats.df[dt].c = SumRows(table, RowsOfUserOn(statsUser, dt), 7)

\* Two rows of the user on one date, of 400 and 300 calories, next to a row
\* of somebody else on that date: the date's sum is 700.
C6_Witness ==
    /\ statsUser # "" /\ stats.some
    /\ \E dt \in DOMAIN stats.df :
           /\ Cardinality(RowsOfUserOn(statsUser, dt)) = 2
           /\ stats.df[dt].cal = 700
           /\ \E k \in 2..Len(table) : table[k][1] = dt /\ table[k][2] # statsUser

\* The Foods rows that have a name and four cells float() can parse.
Usable(k) ==
    /\ foods[k].name # ""
    /\ foods[k].cal.num /\ foods[k].p.num /\ foods[k].f.num /\ foods[k].c.num
UsableNames == {foods[k].name : k \in {j \in 1..Len(foods) : Usable(j)}}
LastUsable(n) ==
    foods[CHOOSE k \in 1..Len(foods) :
              /\ Usable(k) /\ foods[k].name = n
              /\ \A j \in (k + 1)..Len(foods) : ~(Usable(j) /\ foods[j].name = n)]

\* The built-in profiles overlaid with every usable Foods row.
FullOverlay ==
    [n \in DOMAIN BaseDb \cup UsableNames |->
        IF n \in UsableNames
        THEN [cal |-> LastUsable(n).cal.v * 10, p |-> LastUsable(n).p.v * 10,
              f |-> LastUsable(n).f.v * 10, c |-> LastUsable(n).c.v * 10]
        ELSE BaseDb[n]]

\* C7 as stated, read in the code's favour: load_food_db returns the
\* built-in profiles overlaid with every Foods row that has a non-empty name
\* (a row whose numbers cannot be parsed is not held against it), or, when
\* reading failed (a row that cannot be parsed counting as a failure),
\* exactly the built-in profiles.
C7_CatalogIsFullOverlayOrBuiltIn ==
    foodsLoaded =>
        IF foodsReadable
        THEN FOOD_DB = FullOverlay \/ (FOOD_DB = BaseDb /\ \E k \in 1..Len(foods) : ~Usable(k))
        ELSE FOOD_DB = BaseDb

\* C8: smart_carb_calc returns exactly c_input when c_input > 0, whatever
\* cal, p and f are, and max(0, (cal - 4p - 9f) / 4) otherwise, which is
\* never negative.
C8_CarbsExplicitOrClampedRemainder ==
    carbResult.d # 0 =>
        LET cal == carbArgs[1]
            p == carbArgs[2]
            f == carbArgs[3]
            x == carbArgs[4]
            rest == cal - 4 * p - 9 * f
        IN  /\ carbResult.d > 0
            /\ x > 0 => carbResult.n = x * carbResult.d
            /\ x <= 0 => /\ 4 * carbResult.n = carbResult.d * (IF rest > 0 THEN rest ELSE 0)
                         /\ carbResult.n >= 0

\* A derived value: no explicit carbs and calories left over after protein
\* and fat.
C8_Witness ==
    /\ carbResult.d # 0
    /\ carbArgs[4] <= 0
    /\ carbArgs[2] > 0
    /\ carbResult.n > 0
====
